---- MODULE Spec2Model ----
(***************************************************************************)
(* Model of src/directory_analyzer.py: the DirectoryAnalyzer class          *)
(* (validate_directory, analyze_directory, get_top_files,                   *)
(* get_top_extensions, get_size_readable, generate_report) and main().      *)
(*                                                                          *)
(* The file system under the analysed path is environment state chosen in   *)
(* Init and never changed.  os.walk is modelled as the standard library     *)
(* documents it for the call at line 74 (topdown, onerror=None,             *)
(* followlinks=False): a directory whose listing fails is skipped silently. *)
(***************************************************************************)
EXTENDS Integers, Sequences, FiniteSets, TLC

VARIABLES
    target,             \* directory_path: what the path names on disk
    parent,             \* parent[d]: parent of sub-directory d (0 is the analysed directory)
    listable,           \* listable[d]: scandir(d) succeeds
    files,              \* the non-directory entries, in listing order
    pc,                 \* position of main() / of the caller of the class
    stack,              \* os.walk: directories still to list, next one first
    pending,            \* the `files` list of the yielded triple not yet iterated
    walked,             \* directories os.walk has yielded so far, in order
    total_files,
    total_directories,
    total_size,
    file_types,         \* dict in insertion order: sequence of [ext, count]
    largest_files,      \* list of [path, size]
    warnings,           \* number of "Avertissement" lines printed (line 103)
    divisors,           \* denominators of the divisions generate_report evaluated
    report,             \* what the last generate_report printed, or NoReport
    exit_status,        \* argument of sys.exit, or -1 while running
    analyze_runs,       \* completed calls of analyze_directory
    report_runs,        \* completed calls of generate_report
    calls,              \* the query methods a caller has called directly, in order
    top_n,              \* argument of the last get_top_files call, or -1
    top_files,          \* value returned by the last get_top_files call
    top_extensions,     \* value returned by the last get_top_extensions call
    size_bytes,         \* get_size_readable: argument, as base-1024 digits
    unit_index,         \* get_size_readable: loop position (divisions done so far)
    readable            \* get_size_readable: returned text, or NoText

vars == <<target, parent, listable, files, pc, stack, pending, walked,
          total_files, total_directories, total_size, file_types, largest_files,
          warnings, divisors, report, exit_status, analyze_runs, report_runs,
          calls, top_n, top_files, top_extensions, size_bytes, unit_index, readable>>

fsVars == <<target, parent, listable, files>>
aggVars == <<total_files, total_directories, total_size, file_types, largest_files>>
walkVars == <<stack, pending, walked>>
queryVars == <<calls, top_n, top_files, top_extensions>>
fmtVars == <<size_bytes, unit_index, readable>>

(***************************************************************************)
(* Bounds of the model.                                                    *)
(***************************************************************************)
MaxSubdirs == 2
MaxFiles == 2
MaxCalls == 2

FileSizes == {1, 2}
FileNames == {"a.TXT", "b"}

NoReport == [printed |-> FALSE]
NoText == [unit |-> "none"]

(***************************************************************************)
(* The file system.                                                        *)
(***************************************************************************)
Children(d) == {c \in 1..Len(parent) : parent[c] = d}

RECURSIVE SetToSeq(_)
SetToSeq(S) ==
    IF S = {} THEN <<>>
    ELSE LET m == CHOOSE x \in S : \A y \in S : x <= y
         IN <<m>> \o SetToSeq(S \ {m})

\* os.walk's `dirs` for directory d, in listing order
DirList(d) == SetToSeq(Children(d))

\* os.walk's `files` for directory d, in listing order
FileList(d) == SetToSeq({f \in DOMAIN files : files[f].dir = d})

CanList(d) == IF d = 0 THEN target.exists /\ target.is_dir /\ target.readable
              ELSE listable[d]

(***************************************************************************)
(* validate_directory (lines 32-51).                                       *)
(***************************************************************************)
\* validation that forgets the os.access check of line 47
ValidateWithoutAccessCheck == target.exists /\ target.is_dir

ValidateDirectory == target.exists /\ target.is_dir /\ target.readable

(***************************************************************************)
(* Extension of a file name (line 95):                                     *)
(*     file_path.suffix.lower() or 'sans extension'                        *)
(***************************************************************************)
Suffix(name) == CASE name = "a.TXT" -> ".TXT"
                  [] name = "b" -> ""

Lower(s) == CASE s = ".TXT" -> ".txt"
              [] s = "" -> ""

Extension(name) == IF Lower(Suffix(name)) = "" THEN "sans extension"
                   ELSE Lower(Suffix(name))

(***************************************************************************)
(* The dict file_types, kept in insertion order (line 96).                 *)
(***************************************************************************)
DictHas(d, k) == \E i \in DOMAIN d : d[i].ext = k

DictGet(d, k, default) ==
    IF DictHas(d, k) THEN d[CHOOSE i \in DOMAIN d : d[i].ext = k].count
    ELSE default

DictSet(d, k, v) ==
    IF DictHas(d, k)
    THEN [i \in DOMAIN d |-> IF d[i].ext = k THEN [ext |-> k, count |-> v] ELSE d[i]]
    ELSE Append(d, [ext |-> k, count |-> v])

(***************************************************************************)
(* One iteration of the loop over `files` (lines 79-100), by statement.    *)
(***************************************************************************)
\* the count moved inside the `if` of line 87
CountOnlySized(n, f) == IF files[f].kind = "regular" THEN n + 1 ELSE n

\* the count moved after the stat of line 88
CountFileAfterStat(n, f) == IF files[f].err THEN n ELSE n + 1

\* line 84: self.total_files += 1
CountFile(n, f) == n + 1

\* lines 87-88: is_file(), is_symlink() or stat() raises OSError
InspectionRaises(f) == files[f].err

\* line 87: file_path.is_file() and not file_path.is_symlink()
IsSized(f) == files[f].kind = "regular"

\* `=` written for `+=`
AddSizeOverwrite(total, file_size) == file_size

\* line 89: self.total_size += file_size
AddSize(total, file_size) == total + file_size

\* line 92: self.largest_files.append((str(file_path), file_size))
AppendFile(lf, f, file_size) == Append(lf, [path |-> f, size |-> file_size])

\* lines 95-96
TallyExtension(ft, f) ==
    DictSet(ft, Extension(files[f].name), DictGet(ft, Extension(files[f].name), 0) + 1)

\* `break` written for `continue`
AbortDirectory(rest) == <<>>

\* lines 98-100: `continue` goes on with the next file of the same directory
AfterFileError(rest) == rest

(***************************************************************************)
(* get_top_files (lines 105-116): list.sort(key=size, reverse=True) is a   *)
(* stable sort, records of equal size keep their relative order; then [:n].*)
(***************************************************************************)
InsertBySize(r, x) ==
    LET k == Cardinality({i \in DOMAIN r : r[i].size >= x.size})
    IN SubSeq(r, 1, k) \o <<x>> \o SubSeq(r, k + 1, Len(r))

InsertBySizeBeforeEqual(r, x) ==
    LET k == Cardinality({i \in DOMAIN r : r[i].size > x.size})
    IN SubSeq(r, 1, k) \o <<x>> \o SubSeq(r, k + 1, Len(r))

RECURSIVE SortInto(_, _)
SortInto(acc, s) ==
    IF s = <<>> THEN acc ELSE SortInto(InsertBySize(acc, Head(s)), Tail(s))

RECURSIVE SortIntoReversingTies(_, _)
SortIntoReversingTies(acc, s) ==
    IF s = <<>> THEN acc
    ELSE SortIntoReversingTies(InsertBySizeBeforeEqual(acc, Head(s)), Tail(s))

\* a sort that is not stable: ascending sort followed by reverse()
SortAscendingThenReverse(lf) == SortIntoReversingTies(<<>>, lf)

\* line 115
SortBySizeDesc(lf) == SortInto(<<>>, lf)

\* line 116: s[:n], for n >= 0
Slice(s, n) == SubSeq(s, 1, IF n < Len(s) THEN n ELSE Len(s))

(***************************************************************************)
(* get_top_extensions (lines 118-129): sorted() builds a new list.         *)
(***************************************************************************)
InsertByCount(r, x) ==
    LET k == Cardinality({i \in DOMAIN r : r[i].count >= x.count})
    IN SubSeq(r, 1, k) \o <<x>> \o SubSeq(r, k + 1, Len(r))

RECURSIVE SortByCountInto(_, _)
SortByCountInto(acc, s) ==
    IF s = <<>> THEN acc ELSE SortByCountInto(InsertByCount(acc, Head(s)), Tail(s))

GetTopExtensions(ft, n) == Slice(SortByCountInto(<<>>, ft), n)

(***************************************************************************)
(* get_size_readable (lines 53-67).  The argument is held as its base-1024 *)
(* digits, least significant first, so that 1024**5 and beyond can be      *)
(* represented; after k divisions by 1024.0 the value is                   *)
(* sum of digits[j] * 1024^(j-1-k).  For arguments below 2^53 the float    *)
(* divisions are exact and f"{x:.2f}" rounds the exact value half-to-even. *)
(***************************************************************************)
UnitFactor == 1024

Units == <<"o", "Ko", "Mo", "Go", "To">>

LastUnit == "Po"

RECURSIVE Value(_)
Value(digits) ==
    IF digits = <<>> THEN 0 ELSE Head(digits) + UnitFactor * Value(Tail(digits))

RECURSIVE ToDigits(_)
ToDigits(n) ==
    IF n < UnitFactor THEN <<n>>
    ELSE <<n % UnitFactor>> \o ToDigits(n \div UnitFactor)

RECURSIVE MulDigits(_, _, _)
MulDigits(digits, m, carry) ==
    IF digits = <<>> THEN <<carry>>
    ELSE LET v == Head(digits) * m + carry
         IN <<v % UnitFactor>> \o MulDigits(Tail(digits), m, v \div UnitFactor)

\* round(100 * value / 1024^k), ties to even: the digits of f"{value:.2f}"
Hundredths(digits, k) ==
    LET m == MulDigits(digits, 100, 0)
        whole == Value(SubSeq(m, k + 1, Len(m)))
        half == UnitFactor \div 2
        up == /\ k > 0
              /\ k <= Len(m)
              /\ \/ m[k] > half
                 \/ /\ m[k] = half
                    /\ \/ \E j \in 1..(k - 1) : m[j] # 0
                       \/ whole % 2 = 1
    IN IF up THEN whole + 1 ELSE whole

\* line 65 / line 67: f"{size_bytes:.2f} {unit}"
FormatSize(digits, k, unit) == [hundredths |-> Hundredths(digits, k), unit |-> unit]

\* `<=` written for `<`
BelowOrEqualFactor(digits, k) ==
    /\ \A j \in DOMAIN digits : j >= k + 3 => digits[j] = 0
    /\ k + 2 \in DOMAIN digits =>
          \/ digits[k + 2] = 0
          \/ digits[k + 2] = 1 /\ \A j \in 1..(k + 1) : digits[j] = 0

\* line 64: size_bytes < 1024.0, after k divisions
BelowFactor(digits, k) == \A j \in DOMAIN digits : j >= k + 2 => digits[j] = 0

RECURSIVE SizeLoop(_, _)
SizeLoop(digits, k) ==
    IF k < Len(Units)
    THEN IF BelowFactor(digits, k) THEN FormatSize(digits, k, Units[k + 1])
         ELSE SizeLoop(digits, k + 1)
    ELSE FormatSize(digits, k, LastUnit)

GetSizeReadable(digits) == SizeLoop(digits, 0)

(***************************************************************************)
(* generate_report (lines 131-204).                                        *)
(***************************************************************************)
TopCount == 10

\* the guard of line 157 left out
AlwaysAverage == TRUE

\* line 157
HasAverage == total_files > 0

\* line 166
HasExtensionTable(verbose) == verbose /\ file_types # <<>>

\* line 197
SummaryLine == IF total_files = 0 THEN "vide" ELSE "contient"

GenerateReport(verbose) ==
    /\ divisors' = divisors
                     \cup (IF HasAverage THEN {total_files} ELSE {})
                     \cup (IF HasExtensionTable(verbose) THEN {total_files} ELSE {})
    /\ top_extensions' = IF HasExtensionTable(verbose)
                         THEN GetTopExtensions(file_types, TopCount)
                         ELSE top_extensions
    /\ largest_files' = IF verbose THEN SortBySizeDesc(largest_files) ELSE largest_files
    /\ top_files' = IF verbose THEN Slice(largest_files', TopCount) ELSE top_files
    /\ top_n' = IF verbose THEN TopCount ELSE top_n
    /\ report' = [printed |-> TRUE,
                  verbose |-> verbose,
                  files |-> total_files,
                  dirs |-> total_directories,
                  size |-> GetSizeReadable(ToDigits(total_size)),
                  bytes |-> total_size,
                  average |-> HasAverage,
                  ext_table |-> IF HasExtensionTable(verbose) THEN top_extensions' ELSE <<>>,
                  file_table |-> IF verbose THEN top_files' ELSE <<>>,
                  summary |-> SummaryLine]
    /\ report_runs' = report_runs + 1
    /\ UNCHANGED <<total_files, total_directories, total_size, file_types>>

(***************************************************************************)
(* Initial states: the object as __init__ leaves it (lines 25-30), on any  *)
(* target and any tree within the bounds.  What lies below a directory     *)
(* that cannot be listed is never seen by the program and is left out.     *)
(* Names of entries do not matter to the walk, so directories are numbered *)
(* in depth-first listing order and files in listing order, directory by   *)
(* directory: every tree is one of these up to renaming.                   *)
(***************************************************************************)
Targets ==
    {t \in [exists : BOOLEAN, is_dir : BOOLEAN, readable : BOOLEAN] :
        ~t.exists => (~t.is_dir /\ ~t.readable)}

FileDescs(dirs) ==
    [dir : dirs, kind : {"regular"}, err : {FALSE}, name : FileNames, size : FileSizes]
    \cup [dir : dirs, kind : {"regular"}, err : {TRUE}, name : {"b"}, size : {1}]
    \cup [dir : dirs, kind : {"symlink", "special"}, err : {FALSE}, name : {"b"}, size : {0}]

RECURSIVE OnPathToRoot(_, _, _)
OnPathToRoot(p, a, d) == a = d \/ (d # 0 /\ OnPathToRoot(p, a, p[d]))

\* parent vectors of the trees with n sub-directories, numbered depth-first
ParentVectors(n) ==
    {p \in [1..n -> 0..(n - 1)] :
        /\ \A d \in 1..n : p[d] < d
        /\ \A d \in 2..n : OnPathToRoot(p, p[d], d - 1)}

\* only a directory that can be listed shows entries
ListableVectors(t, p) ==
    {l \in [DOMAIN p -> BOOLEAN] :
        \A d \in DOMAIN p :
            IF p[d] = 0 THEN t.exists /\ t.is_dir /\ t.readable ELSE l[p[d]]}

ShownDirs(t, l) ==
    {d \in DOMAIN l : l[d]} \cup (IF t.exists /\ t.is_dir /\ t.readable THEN {0} ELSE {})

FileVectors(k, dirs) ==
    {fs \in [1..k -> FileDescs(dirs)] : \A f \in 2..k : fs[f - 1].dir <= fs[f].dir}

InitObject ==
    /\ stack = <<>>
    /\ pending = <<>>
    /\ walked = <<>>
    /\ total_files = 0
    /\ total_directories = 0
    /\ total_size = 0
    /\ file_types = <<>>
    /\ largest_files = <<>>
    /\ warnings = 0
    /\ divisors = {}
    /\ report = NoReport
    /\ exit_status = -1
    /\ analyze_runs = 0
    /\ report_runs = 0
    /\ calls = <<>>
    /\ top_n = -1
    /\ top_files = <<>>
    /\ top_extensions = <<>>

InitTree ==
    /\ target \in Targets
    /\ \E n \in 0..MaxSubdirs : parent \in ParentVectors(n)
    /\ listable \in ListableVectors(target, parent)
    /\ \E k \in 0..MaxFiles : files \in FileVectors(k, ShownDirs(target, listable))

Init ==
    /\ InitTree
    /\ InitObject
    /\ pc = "start"
    /\ size_bytes = <<>>
    /\ unit_index = 0
    /\ readable = NoText

(***************************************************************************)
(* main (lines 238-252).                                                   *)
(***************************************************************************)
\* lines 241-246: validation passed, analyze_directory is entered
MainValidated ==
    /\ pc = "start"
    /\ ValidateDirectory
    /\ pc' = "walk"
    /\ stack' = <<0>>
    /\ UNCHANGED <<fsVars, pending, walked, aggVars, warnings, divisors, report,
                   exit_status, analyze_runs, report_runs, queryVars, fmtVars>>

\* lines 241-242: validation failed, sys.exit(1)
MainRejected ==
    /\ pc = "start"
    /\ ~ValidateDirectory
    /\ pc' = "exit"
    /\ exit_status' = 1
    /\ UNCHANGED <<fsVars, walkVars, aggVars, warnings, divisors, report,
                   analyze_runs, report_runs, queryVars, fmtVars>>

\* line 250
MainReport ==
    /\ pc = "analyzed"
    /\ \E verbose \in BOOLEAN : GenerateReport(verbose)
    /\ pc' = "reported"
    /\ UNCHANGED <<fsVars, walkVars, warnings, exit_status, analyze_runs, calls, fmtVars>>

\* line 252
MainExit ==
    /\ pc = "reported"
    /\ pc' = "exit"
    /\ exit_status' = 0
    /\ UNCHANGED <<fsVars, walkVars, aggVars, warnings, divisors, report,
                   analyze_runs, report_runs, queryVars, fmtVars>>

(***************************************************************************)
(* analyze_directory (lines 69-103).  Nothing in the outer try block       *)
(* outside the inner try raises PermissionError (os.walk swallows the      *)
(* errors of scandir), so the handler at lines 102-103 is never entered    *)
(* and `warnings` is never incremented.                                     *)
(***************************************************************************)
\* line 74: os.walk lists the next directory and yields (root, dirs, files);
\* line 76 counts its sub-directories
WalkYield ==
    /\ pc = "walk"
    /\ pending = <<>>
    /\ stack # <<>>
    /\ CanList(Head(stack))
    /\ walked' = Append(walked, Head(stack))
    /\ total_directories' = total_directories + Len(DirList(Head(stack)))
    /\ pending' = FileList(Head(stack))
    /\ stack' = DirList(Head(stack)) \o Tail(stack)
    /\ UNCHANGED <<fsVars, pc, total_files, total_size, file_types, largest_files,
                   warnings, divisors, report, exit_status, analyze_runs, report_runs,
                   queryVars, fmtVars>>

\* line 74: scandir fails inside os.walk; with onerror=None the directory is skipped
WalkSkip ==
    /\ pc = "walk"
    /\ pending = <<>>
    /\ stack # <<>>
    /\ ~CanList(Head(stack))
    /\ stack' = Tail(stack)
    /\ UNCHANGED <<fsVars, pc, pending, walked, aggVars, warnings, divisors, report,
                   exit_status, analyze_runs, report_runs, queryVars, fmtVars>>

\* lines 79-100: one iteration of the loop over `files`
ProcessFile ==
    /\ pc = "walk"
    /\ pending # <<>>
    /\ LET f == Head(pending)
           file_size == files[f].size
       IN /\ total_files' = CountFile(total_files, f)
          /\ IF InspectionRaises(f)
             THEN /\ pending' = AfterFileError(Tail(pending))
                  /\ UNCHANGED <<total_size, largest_files, file_types>>
             ELSE /\ pending' = Tail(pending)
                  /\ IF IsSized(f)
                     THEN /\ total_size' = AddSize(total_size, file_size)
                          /\ largest_files' = AppendFile(largest_files, f, file_size)
                          /\ file_types' = TallyExtension(file_types, f)
                     ELSE UNCHANGED <<total_size, largest_files, file_types>>
    /\ UNCHANGED <<fsVars, pc, stack, walked, total_directories, warnings, divisors,
                   report, exit_status, analyze_runs, report_runs, queryVars, fmtVars>>

\* line 74: os.walk is exhausted, analyze_directory returns
WalkEnd ==
    /\ pc = "walk"
    /\ pending = <<>>
    /\ stack = <<>>
    /\ pc' = "analyzed"
    /\ analyze_runs' = analyze_runs + 1
    /\ UNCHANGED <<fsVars, walkVars, aggVars, warnings, divisors, report, exit_status,
                   report_runs, queryVars, fmtVars>>

Next ==
    \/ MainValidated
    \/ MainRejected
    \/ WalkYield
    \/ WalkSkip
    \/ ProcessFile
    \/ WalkEnd
    \/ MainReport
    \/ MainExit

Spec == Init /\ [][Next]_vars

(***************************************************************************)
(* The class driven directly by a caller: analyze_directory once (no       *)
(* validation is required by the method), then up to MaxCalls calls of     *)
(* get_top_files, get_top_extensions and generate_report in any order.     *)
(***************************************************************************)
CallAnalyze ==
    /\ pc = "start"
    /\ pc' = "walk"
    /\ stack' = <<0>>
    /\ UNCHANGED <<fsVars, pending, walked, aggVars, warnings, divisors, report,
                   exit_status, analyze_runs, report_runs, queryVars, fmtVars>>

\* lines 105-116
CallGetTopFiles ==
    /\ pc = "analyzed"
    /\ Len(calls) < MaxCalls
    /\ \E n \in 0..(MaxFiles + 1) :
          /\ largest_files' = SortBySizeDesc(largest_files)
          /\ top_files' = Slice(largest_files', n)
          /\ top_n' = n
    /\ calls' = Append(calls, "get_top_files")
    /\ UNCHANGED <<fsVars, pc, walkVars, total_files, total_directories, total_size,
                   file_types, warnings, divisors, report, exit_status, analyze_runs,
                   report_runs, top_extensions, fmtVars>>

\* lines 118-129
CallGetTopExtensions ==
    /\ pc = "analyzed"
    /\ Len(calls) < MaxCalls
    /\ \E n \in 0..(MaxFiles + 1) : top_extensions' = GetTopExtensions(file_types, n)
    /\ calls' = Append(calls, "get_top_extensions")
    /\ UNCHANGED <<fsVars, pc, walkVars, aggVars, warnings, divisors, report,
                   exit_status, analyze_runs, report_runs, top_n, top_files, fmtVars>>

\* lines 131-204
CallGenerateReport ==
    /\ pc = "analyzed"
    /\ Len(calls) < MaxCalls
    /\ \E verbose \in BOOLEAN : GenerateReport(verbose)
    /\ calls' = Append(calls, "generate_report")
    /\ UNCHANGED <<fsVars, pc, walkVars, warnings, exit_status, analyze_runs, fmtVars>>

InitApi == Init /\ Len(parent) <= 1

NextApi ==
    \/ CallAnalyze
    \/ WalkYield
    \/ WalkSkip
    \/ ProcessFile
    \/ WalkEnd
    \/ CallGetTopFiles
    \/ CallGetTopExtensions
    \/ CallGenerateReport

SpecApi == InitApi /\ [][NextApi]_vars

(***************************************************************************)
(* get_size_readable called on its own (lines 53-67), one loop iteration   *)
(* per step.  The method reads and writes no field of the object.          *)
(***************************************************************************)
NumDigits == 6

DigitValues == {0, 1, 2, 512, 1023}

\* line 64-65: the value is below 1024, return it with the current unit
FmtReturn ==
    /\ pc = "format"
    /\ unit_index < Len(Units)
    /\ BelowFactor(size_bytes, unit_index)
    /\ readable' = FormatSize(size_bytes, unit_index, Units[unit_index + 1])
    /\ pc' = "formatted"
    /\ UNCHANGED <<fsVars, walkVars, aggVars, warnings, divisors, report, exit_status,
                   analyze_runs, report_runs, queryVars, size_bytes, unit_index>>

\* line 66: size_bytes /= 1024.0, next unit
FmtDivide ==
    /\ pc = "format"
    /\ unit_index < Len(Units)
    /\ ~BelowFactor(size_bytes, unit_index)
    /\ unit_index' = unit_index + 1
    /\ UNCHANGED <<fsVars, pc, walkVars, aggVars, warnings, divisors, report,
                   exit_status, analyze_runs, report_runs, queryVars, size_bytes, readable>>

\* line 67: the loop ran out of units
FmtLast ==
    /\ pc = "format"
    /\ unit_index = Len(Units)
    /\ readable' = FormatSize(size_bytes, unit_index, LastUnit)
    /\ pc' = "formatted"
    /\ UNCHANGED <<fsVars, walkVars, aggVars, warnings, divisors, report, exit_status,
                   analyze_runs, report_runs, queryVars, size_bytes, unit_index>>

InitFmt ==
    /\ target = [exists |-> TRUE, is_dir |-> TRUE, readable |-> TRUE]
    /\ parent = <<>>
    /\ listable = <<>>
    /\ files = <<>>
    /\ InitObject
    /\ pc = "format"
    /\ size_bytes \in [1..NumDigits -> DigitValues]
    /\ unit_index = 0
    /\ readable = NoText

NextFmt == FmtReturn \/ FmtDivide \/ FmtLast

SpecFmt == InitFmt /\ [][NextFmt]_vars

(***************************************************************************)
(* What the file system holds, stated without reference to the walk.       *)
(***************************************************************************)
Range(s) == {s[i] : i \in DOMAIN s}

Min(a, b) == IF a < b THEN a ELSE b

FirstN(s, n) == [i \in 1..Min(n, Len(s)) |-> s[i]]

RECURSIVE SumSizes(_)
SumSizes(s) == IF s = <<>> THEN 0 ELSE Head(s).size + SumSizes(Tail(s))

TargetValid == target.exists /\ target.is_dir /\ target.readable

Listed(d) == IF d = 0 THEN TargetValid ELSE listable[d]

RECURSIVE Preorder(_)
Preorder(ds) ==
    IF ds = <<>> THEN <<>>
    ELSE (IF Listed(Head(ds))
          THEN <<Head(ds)>> \o Preorder(SetToSeq({c \in DOMAIN parent : parent[c] = Head(ds)}))
          ELSE <<>>)
         \o Preorder(Tail(ds))

\* the directories a depth-first walk from the target can list, in order
ListedDirs == Preorder(<<0>>)

RECURSIVE FilesOf(_)
FilesOf(ds) ==
    IF ds = <<>> THEN <<>>
    ELSE SetToSeq({f \in DOMAIN files : files[f].dir = Head(ds)}) \o FilesOf(Tail(ds))

\* the non-directory entries of the listed directories, in discovery order
ListedFiles == FilesOf(ListedDirs)

Regular(f) == files[f].kind = "regular"
Inspectable(f) == ~files[f].err

RECURSIVE SizeSum(_)
SizeSum(S) ==
    IF S = {} THEN 0
    ELSE LET f == CHOOSE x \in S : TRUE IN files[f].size + SizeSum(S \ {f})

\* the files the loop of lines 79-100 has already handled
Processed == {f \in DOMAIN files : files[f].dir \in Range(walked) /\ f \notin Range(pending)}

ExpectedExtension(f) == IF files[f].name = "a.TXT" THEN ".txt" ELSE "sans extension"

AnalysisDone == analyze_runs = 1

\* the (path, size) records of a set of files, in discovery order
RECURSIVE RecordsOf(_, _)
RecordsOf(fs, S) ==
    IF fs = <<>> THEN <<>>
    ELSE (IF Head(fs) \in S THEN <<[path |-> Head(fs), size |-> files[Head(fs)].size]>>
          ELSE <<>>)
         \o RecordsOf(Tail(fs), S)

DiscoveryRecords ==
    RecordsOf(ListedFiles, {f \in DOMAIN files : Regular(f) /\ Inspectable(f)})

\* position of record i in a stable sort by decreasing size
Rank(s, i) ==
    1 + Cardinality({j \in DOMAIN s :
                        s[j].size > s[i].size \/ (s[j].size = s[i].size /\ j < i)})

StableDescending(s) == [r \in DOMAIN s |-> s[CHOOSE i \in DOMAIN s : Rank(s, i) = r]]

(***************************************************************************)
(* C1: at every step of analyze_directory and afterwards, total_size is    *)
(* the sum of the sizes of the records in largest_files.                   *)
(***************************************************************************)
C1_SizeIsSumOfRecords == total_size = SumSizes(largest_files)

C1_Witness ==
    /\ pc = "walk"
    /\ pending # <<>>
    /\ Len(largest_files) >= 1
    /\ total_size >= 2

(***************************************************************************)
(* C2 as stated: after the analysis total_size is the sum of the sizes of  *)
(* all regular non-symlink files of the tree and total_files is their      *)
(* number plus the number of symbolic links.                               *)
(***************************************************************************)
C2_Original ==
    AnalysisDone =>
        /\ total_size = SizeSum({f \in Range(ListedFiles) : Regular(f)})
        /\ total_files = Cardinality({f \in Range(ListedFiles) : Regular(f)})
                         + Cardinality({f \in Range(ListedFiles) : files[f].kind = "symlink"})

(***************************************************************************)
(* C2 amended: after the analysis total_size is the sum of the sizes of the*)
(* regular non-symlink files whose inspection raised no error, and         *)
(* total_files is the number of all non-directory entries of the listed    *)
(* directories (regular files, symbolic links and other non-regular        *)
(* entries, whether or not their inspection failed).                       *)
(***************************************************************************)
C2_Amended ==
    AnalysisDone =>
        /\ total_size = SizeSum({f \in Range(ListedFiles) : Regular(f) /\ Inspectable(f)})
        /\ total_files = Len(ListedFiles)

C2_Witness ==
    /\ AnalysisDone
    /\ \E f \in Range(ListedFiles) : Regular(f) /\ ~Inspectable(f)
    /\ \E f \in Range(ListedFiles) : ~Regular(f)

(***************************************************************************)
(* C3 as stated: a file whose inspection fails is not counted, total_files *)
(* is always the number of handled files whose inspection raised no error. *)
(***************************************************************************)
C3_Original == total_files = Cardinality({f \in Processed : Inspectable(f)})

FailingFileNext == pc = "walk" /\ pending # <<>> /\ files[Head(pending)].err

(***************************************************************************)
(* C3 amended: a file whose inspection fails leaves total_size,            *)
(* largest_files and file_types unchanged but is still counted:            *)
(* total_files grows by one, and total_files always equals the number of   *)
(* files handled so far, failed inspections included.                      *)
(***************************************************************************)
C3_Amended ==
    /\ [](total_files = Cardinality(Processed))
    /\ [][FailingFileNext =>
             /\ total_files' = total_files + 1
             /\ UNCHANGED <<total_size, largest_files, file_types>>]_vars

C3_Witness ==
    /\ \E f \in Processed : ~Inspectable(f)
    /\ \E f \in Processed : Inspectable(f) /\ Regular(f)

(***************************************************************************)
(* C4 as stated: when a sub-directory cannot be listed, exactly one        *)
(* warning line is printed and the counters still reflect every file of    *)
(* the directories that can be listed.                                     *)
(***************************************************************************)
C4_Claim ==
    (AnalysisDone /\ \E d \in DOMAIN listable : ~listable[d]) =>
        /\ warnings = 1
        /\ total_files = Len(ListedFiles)
        /\ total_size = SizeSum({f \in Range(ListedFiles) : Regular(f) /\ Inspectable(f)})

(***************************************************************************)
(* C5: main is the pipeline validate, analyze, report.  A target that is   *)
(* missing, not a directory or unreadable ends with status 1 and neither   *)
(* analyze_directory nor generate_report runs; otherwise each runs exactly *)
(* once, the report after the analysis, the status is 0, and no error      *)
(* during the walk stops the program before its exit.                      *)
(***************************************************************************)
C5_Pipeline ==
    /\ ~TargetValid =>
          /\ pc \in {"start", "exit"}
          /\ analyze_runs = 0 /\ report_runs = 0
          /\ walked = <<>> /\ stack = <<>> /\ report = NoReport
          /\ pc = "exit" => exit_status = 1
    /\ TargetValid =>
          /\ analyze_runs <= 1 /\ report_runs <= 1
          /\ report_runs = 1 => (analyze_runs = 1 /\ report.printed)
          /\ pc = "reported" => report_runs = 1
          /\ pc = "exit" => (exit_status = 0 /\ analyze_runs = 1 /\ report_runs = 1)
    /\ pc # "exit" => (exit_status = -1 /\ ENABLED Next)

C5_Witness ==
    /\ pc = "exit"
    /\ exit_status = 0
    /\ \E f \in DOMAIN files : files[f].err
    /\ \E d \in DOMAIN listable : ~listable[d]

(***************************************************************************)
(* C6: a file whose inspection fails is the only file skipped.  At every   *)
(* step the aggregates are exactly those of the regular, inspectable files *)
(* handled so far (largest_files holds them in discovery order until the   *)
(* report sorts it), and when the analysis ends every file of every listed *)
(* directory has been handled.                                             *)
(***************************************************************************)
C6_OnlyFailingFileSkipped ==
    LET ok == {f \in Processed : Regular(f) /\ Inspectable(f)}
    IN /\ Len(largest_files) = Cardinality(ok)
       /\ {r.path : r \in Range(largest_files)} = ok
       /\ \A r \in Range(largest_files) : r.size = files[r.path].size
       /\ total_size = SizeSum(ok)
       /\ \A e \in {".txt", "sans extension"} :
             DictGet(file_types, e, 0) = Cardinality({f \in ok : ExpectedExtension(f) = e})
       /\ report_runs = 0 =>
             largest_files = RecordsOf(SubSeq(ListedFiles, 1, Cardinality(Processed)), ok)
       /\ AnalysisDone => Processed = Range(ListedFiles)

C6_Witness ==
    /\ AnalysisDone
    /\ \E f, g \in DOMAIN files :
          /\ f < g
          /\ files[f].dir = files[g].dir
          /\ files[f].err
          /\ Regular(g) /\ Inspectable(g)

(***************************************************************************)
(* C7: get_top_files(n), n >= 0, returns the first n records (all of them  *)
(* when there are fewer) of the stable sort by decreasing size of the      *)
(* records in discovery order, also when it is called again.               *)
(***************************************************************************)
C7_TopFiles ==
    top_n >= 0 =>
        /\ top_files = FirstN(StableDescending(DiscoveryRecords), top_n)
        /\ Len(top_files) = Min(top_n, Len(DiscoveryRecords))
        /\ \A i \in 1..(Len(top_files) - 1) : top_files[i].size >= top_files[i + 1].size
        /\ Range(top_files) \subseteq Range(DiscoveryRecords)

C7_Witness ==
    /\ calls = <<"get_top_files", "get_top_files">>
    /\ top_n = 2
    /\ Len(top_files) = 2
    /\ top_files[1].size = top_files[2].size
    /\ top_files[1].path < top_files[2].path

(***************************************************************************)
(* get_size_readable: the tier of an argument is the index of its highest  *)
(* non-zero base-1024 digit.                                               *)
(***************************************************************************)
Tier(digits) ==
    IF \A j \in DOMAIN digits : digits[j] = 0 THEN 0
    ELSE (CHOOSE j \in DOMAIN digits :
             digits[j] # 0 /\ \A i \in DOMAIN digits : i > j => digits[i] = 0) - 1

(***************************************************************************)
(* C8 as stated: five tiers only; an argument of 1024^5 or more stays in   *)
(* the fifth unit (To) after four divisions.                               *)
(***************************************************************************)
C8_Original ==
    pc = "formatted" =>
        /\ unit_index = Min(Tier(size_bytes), 4)
        /\ readable.unit = <<"o", "Ko", "Mo", "Go", "To">>[Min(Tier(size_bytes), 4) + 1]

(***************************************************************************)
(* C8 amended: there are six tiers (o, Ko, Mo, Go, To, Po).  The unit is   *)
(* the smallest tier i in 0..4 with bytes < 1024^(i+1), reached after i    *)
(* divisions; an argument of 1024^5 or more is divided five times and      *)
(* returned in the sixth unit, Po.  0 gives 0.00 o and 2048 gives 2.00 Ko. *)
(***************************************************************************)
C8_Amended ==
    pc = "formatted" =>
        /\ unit_index = Min(Tier(size_bytes), 5)
        /\ readable.unit = <<"o", "Ko", "Mo", "Go", "To", "Po">>[Min(Tier(size_bytes), 5) + 1]
        /\ (\A j \in DOMAIN size_bytes : size_bytes[j] = 0) =>
              readable = [hundredths |-> 0, unit |-> "o"]
        /\ (\A j \in DOMAIN size_bytes : size_bytes[j] = (IF j = 2 THEN 2 ELSE 0)) =>
              readable = [hundredths |-> 200, unit |-> "Ko"]

C8_Witness ==
    /\ pc = "formatted"
    /\ Tier(size_bytes) = 5
    /\ readable.unit = "Po"
    /\ unit_index = 5

(***************************************************************************)
(* C9: on an empty valid directory the three totals are 0 and the summary  *)
(* is the fixed "empty" message; generate_report never divides by          *)
(* total_files when it is 0, verbose or not.                               *)
(***************************************************************************)
C9_EmptyDirectory ==
    /\ 0 \notin divisors
    /\ report.printed =>
          /\ total_files = 0 => (report.summary = "vide" /\ ~report.average /\ divisors = {})
          /\ (files = <<>> /\ parent = <<>>) =>
                /\ total_files = 0 /\ total_directories = 0 /\ total_size = 0
                /\ report.files = 0 /\ report.dirs = 0 /\ report.bytes = 0
                /\ report.summary = "vide"

C9_Witness ==
    /\ report.printed
    /\ report.verbose
    /\ TargetValid
    /\ files = <<>>
    /\ parent = <<>>

(***************************************************************************)
(* C10 as stated: once analyze_directory has returned, no call of          *)
(* get_top_files, get_top_extensions or generate_report changes            *)
(* total_files, total_directories, total_size, file_types or the           *)
(* largest_files sequence.                                                 *)
(***************************************************************************)
C10_Claim == [][AnalysisDone => UNCHANGED aggVars]_vars

====
